---- MODULE Spec2Model ----
(***************************************************************************)
(* Paired-asset lifecycle of the before/after image routes.                *)
(*                                                                         *)
(* The repository holds three generations of routes/images.js:             *)
(*   "preview"  - src/unnamed/part_002 lines 1-191   (both images required,*)
(*                eager blurred preview)                                   *)
(*   "optional" - src/unnamed/part_002 lines 193-394 (before image         *)
(*                optional, placeholder sentinel, like counter)            *)
(*   "strict"   - src/unnamed/part_003               (title, description   *)
(*                and both images required)                                *)
(* A deployment mounts one of them (src/server.js line 32); the model      *)
(* fixes the variant in Init and checks every property for all three.      *)
(*                                                                         *)
(* Every await of a handler is one step of the request: the remote call    *)
(* takes effect and the handler runs on to its next await.  The first      *)
(* step of PUT, DELETE and PATCH is the lookup of the document; the first  *)
(* step of POST is its validation.  Calls joined by Promise.all are in     *)
(* flight together and settle one per step, in either order.  Any call of  *)
(* the Object Store or the document store may be rejected.                 *)
(***************************************************************************)
EXTENDS Integers, Sequences, FiniteSets, TLC

\* ---- bounds of the model ------------------------------------------------
MaxReqs == 2      \* requests received in one behaviour
MaxConc == 2      \* requests in flight at the same time
MaxClock == 1     \* largest value Date.now() takes (it starts at 0)

\* a request occupies a slot from its first step until its response has
\* left and none of its calls is in flight any more
Reqs == 1..MaxConc

Variants == {"preview", "optional", "strict"}
Sides == {"beforeImage", "afterImage"}

\* req.body.title / req.body.description: a missing field and the values sent
Undef == "undefined"
Null == "null"
CreateTitles == {Undef, "Kitchen"}
CreateDescriptions == {Undef, "Remodel"}
UpdateTitles == {Undef, "Bath"}
UpdateDescriptions == {Undef, "Refit"}

\* req.files: undefined when the request is not multipart, else the set of
\* the file fields present
FileInputs ==
  {[multipart |-> FALSE, fields |-> {}]}
    \cup {[multipart |-> TRUE, fields |-> s] : s \in SUBSET Sides}

\* a public_id is a folder prefix and a unique tail
NoId == [prefix |-> "none", n |-> 0]
NoDoc ==
  [title |-> Undef, description |-> Undef, beforeImage |-> NoId,
   afterImage |-> NoId, likes |-> 0, createdAt |-> 0]

VARIABLES
  variant,   \* the routes file mounted at /api/images
  omitUndefined, \* the installed Mongoose strips undefined keys from an
             \* update (6 and later) or writes them as null (5.x)
  db,        \* the images collection: _id -> document
  cloud,     \* public_ids of the objects held by the Object Store
  clock,     \* the last value Date.now() returned
  started,   \* requests received so far
  rq,        \* the requests: position, inputs, locals, calls made, response
  liked,     \* history: per document _id, the like requests answered 200
  failedDeletes, \* history: the _ids whose DELETE failed on a rejected destroy
  writes     \* history: the writes of PUT requests that changed a document

vars == <<variant, omitUndefined, db, cloud, clock, started, rq, liked,
          failedDeletes, writes>>

IdleReq ==
  [kind |-> "none", pc |-> "idle",
   serial |-> 0,             \* the how-manieth request this is
   title |-> Undef, description |-> Undef,
   files |-> [multipart |-> FALSE, fields |-> {}],
   id |-> 0,                 \* req.params.id
   entry |-> NoDoc,          \* the document findById returned
   upd |-> NoDoc,            \* updateData / the document under construction
   set |-> {},               \* the fields of upd that are assigned
   side |-> "",              \* the image the handler is working on
   pending |-> {},           \* Promise.all calls still in flight
   log |-> <<>>,             \* calls settled so far, in order
   status |-> 0,             \* HTTP status of the response, 0 before it
   doc |-> 0,                \* _id of the document the request inserted
   query |-> Undef,          \* req.query.q
   result |-> <<>>]          \* the _ids of the documents sent, in order

\* ---- pure helpers -------------------------------------------------------

\* JavaScript truthiness of an optional string: !x
Falsy(x) == x \in {Undef, Null, ""}

\* public_id.startsWith('placeholders/')
IsPlaceholder(pid) == pid.prefix = "placeholders"

\* slip: one public_id per request, shared by both of its images
NewPublicIdPerRequest(v, serial, side) ==
  [prefix |-> IF v = "strict" THEN "" ELSE "before-after", n |-> 2 * serial + 1]

\* public_id of the object an upload creates: in folder 'before-after' in
\* part_002, without a folder in part_003; the Object Store makes the tail
\* unique (here: by request and image)
NewPublicId(v, serial, side) ==
  [prefix |-> IF v = "strict" THEN "" ELSE "before-after",
   n |-> 2 * serial + (IF side = "beforeImage" THEN 1 ELSE 2)]

\* slip: the made-up identifier lacks the placeholders/ prefix
PlaceholderIdUnmarked(now) == [prefix |-> "before-after", n |-> now]

\* `placeholders/no-image-${Date.now()}`
PlaceholderId(now) == [prefix |-> "placeholders", n |-> now]

\* Date.now() never runs backwards
Nows == clock..MaxClock

Call(op, side, pid, ok) == [op |-> op, side |-> side, id |-> pid, ok |-> ok]

Logged(q, op, side, pid, ok) == [q EXCEPT !.log = Append(@, Call(op, side, pid, ok))]

Respond(q, code) == [q EXCEPT !.pc = "done", !.status = code]

\* slip: a destroy that resolves leaves the object in the store
DestroyedNothing(store, pid) == store

\* cloudinary.uploader.destroy(public_id) resolved: the object is gone; for
\* an object that was gone already this changes nothing
Destroyed(store, pid) == store \ {pid}

\* Image.findById(id): the document, or null
FindById(i) == IF i \in DOMAIN db THEN db[i] ELSE NoDoc

\* slip: the null check after the lookup is missing
NotFoundNever(d) == FALSE

\* if (!imageEntry) / if (!entry) / if (!image)
NotFound(d) == d = NoDoc

\* a new request takes the lowest free slot
Free(r) == rq[r].pc = "idle" /\ rq[r].pending = {}

MayStart(r) ==
  /\ started < MaxReqs
  /\ Free(r)
  /\ \A p \in Reqs : p < r => ~Free(p)

\* req.params.id: the _id of a document of the collection, or one that no
\* document has (the request's own number)
TargetIds == DOMAIN db \cup {started + 1}

\* The collection and the Object Store outlive the server process.  At start
\* the collection is empty or holds the document (_id 0) that an earlier
\* POST of the same routes file left: two uploaded images, or, where the
\* before image is optional, a placeholder and one uploaded image.
SeedDoc(v, placeholder) ==
  [title |-> "Kitchen", description |-> "Remodel",
   beforeImage |-> IF placeholder THEN PlaceholderId(0)
                   ELSE NewPublicId(v, 0, "beforeImage"),
   afterImage |-> NewPublicId(v, 0, "afterImage"),
   likes |-> 0, createdAt |-> 0]

RealIds(d) == {d[s] : s \in Sides} \ {p \in {d[s] : s \in Sides} : IsPlaceholder(p)}

Seeds(v) ==
  {<< >>, 0 :> SeedDoc(v, FALSE)}
    \cup (IF v = "optional" THEN {0 :> SeedDoc(v, TRUE)} ELSE {})

Init ==
  /\ variant \in Variants
  /\ omitUndefined \in (IF variant = "strict" THEN {TRUE} ELSE BOOLEAN)
  /\ db \in Seeds(variant)
  /\ cloud = UNION {RealIds(db[i]) : i \in DOMAIN db}
  /\ clock = 0
  /\ started = 0
  /\ rq = [r \in Reqs |-> IdleReq]
  /\ liked = [i \in 0..MaxReqs |-> 0]
  /\ failedDeletes = {}
  /\ writes = << >>

\* ---- POST /api/images ---------------------------------------------------

\* the checks each POST handler makes before its try block
CreateCheck(v, q) ==
  CASE v = "strict" ->
         IF ~q.files.multipart THEN "throw"      \* req.files.beforeImage of undefined
         ELSE IF Falsy(q.title) \/ Falsy(q.description)
                 \/ "beforeImage" \notin q.files.fields
                 \/ "afterImage" \notin q.files.fields
              THEN "400" ELSE "ok"
    [] v = "preview" ->
         IF ~q.files.multipart
            \/ "beforeImage" \notin q.files.fields
            \/ "afterImage" \notin q.files.fields
         THEN "400" ELSE "ok"
    [] v = "optional" ->
         IF ~q.files.multipart \/ "afterImage" \notin q.files.fields
         THEN "400" ELSE "ok"

\* slip: a rejected upload is swallowed and the document saved all the same
CreateCatchSavesAnyway(q) == [q EXCEPT !.pc = "c_save"]

\* catch (err) of the POST handlers: the request fails, nothing is saved
CreateCatch(q) == Respond(q, 500)

\* new Image({...}): the document is built, createdAt defaulting to now, and
\* save() is called
BuildDoc(q, now) ==
  [q EXCEPT !.upd = [@ EXCEPT !.title = q.title,
                              !.description = q.description,
                              !.createdAt = now],
            !.pc = "c_save"]

\* the handler is entered: validation, then the uploads are issued
StartCreate(r) ==
  /\ MayStart(r)
  /\ \E t \in CreateTitles, d \in CreateDescriptions, f \in FileInputs :
       LET q == [IdleReq EXCEPT !.kind = "create", !.serial = started + 1,
                             !.title = t, !.description = d, !.files = f]
           chk == CreateCheck(variant, q)
       IN  rq' = [rq EXCEPT ![r] =
                   CASE chk = "throw" -> Respond(q, -1)
                     [] chk = "400" -> Respond(q, 400)
                     [] chk = "ok" /\ variant = "optional" ->
                          [q EXCEPT !.pc = "c_after"]
                     [] OTHER ->
                          [q EXCEPT !.pc = "c_all", !.pending = Sides]]
  /\ started' = started + 1
  /\ UNCHANGED <<variant, omitUndefined, db, cloud, clock, liked, failedDeletes, writes>>

\* Promise.all([upload(before), upload(after)]): one of the uploads settles.
\* The first rejection rejects the Promise.all and the handler answers 500;
\* the other upload stays in flight and settles later.
CreateSettle(r) ==
  /\ rq[r].kind = "create"
  /\ rq[r].pending # {}
  /\ \E s \in rq[r].pending, ok \in BOOLEAN, now \in Nows :
       LET pid == NewPublicId(variant, rq[r].serial, s)
           q1 == Logged([rq[r] EXCEPT !.pending = @ \ {s}],
                        "upload", s, IF ok THEN pid ELSE NoId, ok)
           q2 == IF ok /\ q1.pc = "c_all" THEN [q1 EXCEPT !.upd[s] = pid] ELSE q1
           built == q2.pc = "c_all" /\ ok /\ q2.pending = {}
       IN  /\ cloud' = IF ok THEN cloud \cup {pid} ELSE cloud
           /\ clock' = IF built THEN now ELSE clock
           /\ ~built => now = clock
           /\ rq' = [rq EXCEPT ![r] =
                      IF q2.pc # "c_all" THEN q2
                      ELSE IF ~ok THEN CreateCatch(q2)
                      ELSE IF built THEN BuildDoc(q2, now)
                      ELSE q2]
  /\ UNCHANGED <<variant, omitUndefined, db, started, liked, failedDeletes, writes>>

\* await uploadToCloudinary(afterImage); then, with no before image, the
\* placeholder is made up and the document built
CreateUploadAfter(r) ==
  /\ rq[r].pc = "c_after"
  /\ \E ok \in BOOLEAN, now \in Nows :
       LET pid == NewPublicId(variant, rq[r].serial, "afterImage")
           q1 == Logged(rq[r], "upload", "afterImage", IF ok THEN pid ELSE NoId, ok)
           q2 == [q1 EXCEPT !.upd.afterImage = pid]
           built == ok /\ "beforeImage" \notin q2.files.fields
       IN  /\ cloud' = IF ok THEN cloud \cup {pid} ELSE cloud
           /\ clock' = IF built THEN now ELSE clock
           /\ ~built => now = clock
           /\ rq' = [rq EXCEPT ![r] =
                      IF ~ok THEN CreateCatch(q1)
                      ELSE IF ~built THEN [q2 EXCEPT !.pc = "c_before"]
                      ELSE BuildDoc([q2 EXCEPT !.upd.beforeImage = PlaceholderId(now)],
                                    now)]
  /\ UNCHANGED <<variant, omitUndefined, db, started, liked, failedDeletes, writes>>

\* await uploadToCloudinary(beforeImage)
CreateUploadBefore(r) ==
  /\ rq[r].pc = "c_before"
  /\ \E ok \in BOOLEAN, now \in Nows :
       LET pid == NewPublicId(variant, rq[r].serial, "beforeImage")
           q1 == Logged(rq[r], "upload", "beforeImage", IF ok THEN pid ELSE NoId, ok)
       IN  /\ cloud' = IF ok THEN cloud \cup {pid} ELSE cloud
           /\ clock' = IF ok THEN now ELSE clock
           /\ ~ok => now = clock
           /\ rq' = [rq EXCEPT ![r] =
                      IF ~ok THEN CreateCatch(q1)
                      ELSE BuildDoc([q1 EXCEPT !.upd.beforeImage = pid], now)]
  /\ UNCHANGED <<variant, omitUndefined, db, started, liked, failedDeletes, writes>>

\* await newImage.save(): schema validation (title and description are
\* required) rejects before anything is sent; else the insert
CreateSave(r) ==
  /\ rq[r].pc = "c_save"
  /\ IF Falsy(rq[r].upd.title) \/ Falsy(rq[r].upd.description)
     THEN /\ rq' = [rq EXCEPT ![r] = Respond(@, 500)]
          /\ db' = db
     ELSE \E ok \in BOOLEAN :
            IF ok
            THEN /\ db' = (rq[r].serial :> rq[r].upd) @@ db
                 /\ rq' = [rq EXCEPT ![r] =
                            Respond(Logged([@ EXCEPT !.doc = rq[r].serial],
                                           "save", "", NoId, TRUE), 201)]
            ELSE /\ rq' = [rq EXCEPT ![r] =
                            Respond(Logged(@, "save", "", NoId, FALSE), 500)]
                 /\ db' = db
  /\ UNCHANGED <<variant, omitUndefined, cloud, clock, started, liked, failedDeletes, writes>>

\* ---- PUT /api/images/:id ------------------------------------------------

\* slip: the placeholder test before the destroy is missing
UpdateDestroysOldAlways(v, entry, side) == TRUE

\* whether the handler destroys the old image of a side before it uploads
\* the new one: always, except that the optional-before handler skips a
\* before image that is missing or a placeholder
UpdateDestroysOld(v, entry, side) ==
  IF v = "optional" /\ side = "beforeImage"
  THEN entry.beforeImage # NoId /\ ~IsPlaceholder(entry.beforeImage)
  ELSE TRUE

HasFile(q, side) == q.files.multipart /\ side \in q.files.fields

\* the handler turns to the image `side`, or to the write when none is left
UpdateTurnTo(v, q, sides) ==
  IF \E s \in sides : HasFile(q, s)
  THEN LET s == IF "beforeImage" \in sides /\ HasFile(q, "beforeImage")
                THEN "beforeImage" ELSE "afterImage"
       IN  [q EXCEPT !.side = s,
                     !.pc = IF UpdateDestroysOld(v, q.entry, s)
                            THEN "u_destroy" ELSE "u_upload"]
  ELSE [q EXCEPT !.side = "", !.pc = "u_persist"]

\* the text fields of the update.  part_002 puts req.body.title and
\* req.body.description into updateData as they are: Mongoose drops an
\* undefined value from the update or, before version 6, sends it and the
\* field is stored as null.  part_003 assigns title || entry.title to the
\* loaded document, which marks the field modified when the value changes.
UpdateTexts(v, q) ==
  LET sent(x) == IF x = Undef /\ ~omitUndefined THEN Null ELSE x
      t == IF v = "strict"
           THEN (IF Falsy(q.title) THEN q.entry.title ELSE q.title)
           ELSE sent(q.title)
      d == IF v = "strict"
           THEN (IF Falsy(q.description) THEN q.entry.description
                 ELSE q.description)
           ELSE sent(q.description)
      assigned(x, old) == IF v = "strict" THEN x # old ELSE x # Undef
  IN  [q EXCEPT !.upd = [q.entry EXCEPT !.title = t, !.description = d],
                !.set = (IF assigned(t, q.entry.title) THEN {"title"} ELSE {})
                          \cup (IF assigned(d, q.entry.description)
                                THEN {"description"} ELSE {})]

\* slip: the write leaves the stored fields as they are
ApplySetNothing(old, upd, set) == old

\* the document after the assigned fields are written
ApplySet(old, upd, set) ==
  [f \in DOMAIN old |-> IF f \in set THEN upd[f] ELSE old[f]]

\* slip: the catch falls through to the write
UpdateCatchPersists(q) == [q EXCEPT !.pc = "u_persist"]

\* catch (err) of the PUT handlers: the request fails, nothing is written
UpdateCatch(q) == Respond(q, 500)

\* the handler is entered: await Image.findById(req.params.id)
StartUpdate(r) ==
  /\ MayStart(r)
  /\ \E i \in TargetIds, t \in UpdateTitles, d \in UpdateDescriptions,
        f \in FileInputs, ok \in BOOLEAN :
       LET q == Logged([IdleReq EXCEPT !.kind = "update", !.serial = started + 1,
                                       !.id = i, !.title = t, !.description = d,
                                       !.files = f],
                       "findById", "", NoId, ok)
       IN  rq' = [rq EXCEPT ![r] =
                   IF ~ok THEN UpdateCatch(q)
                   ELSE IF NotFound(FindById(i)) THEN Respond(q, 404)
                   ELSE UpdateTurnTo(variant,
                                     UpdateTexts(variant, [q EXCEPT !.entry = FindById(i)]),
                                     Sides)]
  /\ started' = started + 1
  /\ UNCHANGED <<variant, omitUndefined, db, cloud, clock, liked, failedDeletes, writes>>

\* await cloudinary.uploader.destroy(old public_id); destroying an object
\* that is already gone resolves as well
UpdateDestroy(r) ==
  /\ rq[r].pc = "u_destroy"
  /\ \E ok \in BOOLEAN :
       LET old == rq[r].entry[rq[r].side]
           q == Logged(rq[r], "destroy", rq[r].side, old, ok)
       IN  /\ cloud' = IF ok THEN Destroyed(cloud, old) ELSE cloud
           /\ rq' = [rq EXCEPT ![r] =
                      IF ok THEN [q EXCEPT !.pc = "u_upload"] ELSE UpdateCatch(q)]
  /\ UNCHANGED <<variant, omitUndefined, db, clock, started, liked, failedDeletes, writes>>

\* await uploadToCloudinary(new buffer); the new reference goes into
\* updateData (part_002) or into the loaded document (part_003)
UpdateUpload(r) ==
  /\ rq[r].pc = "u_upload"
  /\ \E ok \in BOOLEAN :
       LET s == rq[r].side
           pid == NewPublicId(variant, rq[r].serial, s)
           q == Logged(rq[r], "upload", s, IF ok THEN pid ELSE NoId, ok)
       IN  /\ cloud' = IF ok THEN cloud \cup {pid} ELSE cloud
           /\ rq' = [rq EXCEPT ![r] =
                      IF ~ok THEN UpdateCatch(q)
                      ELSE UpdateTurnTo(variant,
                                        [q EXCEPT !.upd[s] = pid, !.set = @ \cup {s}],
                                        Sides \ {"beforeImage", s})]
  /\ UNCHANGED <<variant, omitUndefined, db, clock, started, liked, failedDeletes, writes>>

\* the write.  part_002: await Image.findByIdAndUpdate(id, updateData), whose
\* result (null when the document is gone) is sent with status 200.
\* part_003: await entry.save(), which writes the modified fields and
\* rejects when the document is gone; with no field modified it sends no
\* write, and only later Mongoose versions then look whether the document is
\* still there.
UpdatePersist(r) ==
  /\ rq[r].pc = "u_persist"
  /\ IF variant = "strict" /\ rq[r].set = {}
     THEN /\ \E checked \in BOOLEAN :
               rq' = [rq EXCEPT ![r] =
                       IF checked /\ rq[r].id \notin DOMAIN db
                       THEN UpdateCatch(@) ELSE Respond(@, 200)]
          /\ db' = db
          /\ writes' = writes
     ELSE \E ok \in BOOLEAN :
            LET i == rq[r].id
                q == Logged(rq[r], "write", "", NoId, ok)
            IN  IF ~ok
                THEN /\ rq' = [rq EXCEPT ![r] = UpdateCatch(q)]
                     /\ db' = db
                     /\ writes' = writes
                ELSE IF i \notin DOMAIN db
                THEN /\ rq' = [rq EXCEPT ![r] =
                                Respond(q, IF variant = "strict" THEN 500 ELSE 200)]
                     /\ db' = db
                     /\ writes' = writes
                ELSE /\ rq' = [rq EXCEPT ![r] = Respond(q, 200)]
                     /\ db' = [db EXCEPT ![i] = ApplySet(@, rq[r].upd, rq[r].set)]
                     /\ writes' = Append(writes, [serial |-> rq[r].serial, id |-> i,
                                                  set |-> rq[r].set])
  /\ UNCHANGED <<variant, omitUndefined, cloud, clock, started, liked, failedDeletes>>

\* ---- DELETE /api/images/:id ---------------------------------------------

\* slip: the before image is never destroyed
DeleteDestroysBeforeNever(v, entry) == FALSE

\* whether the handler destroys the before image: the optional-before
\* handler skips a missing one and a placeholder
DeleteDestroysBefore(v, entry) ==
  IF v = "optional"
  THEN entry.beforeImage # NoId /\ ~IsPlaceholder(entry.beforeImage)
  ELSE TRUE

\* slip: a rejected destroy is swallowed and the document removed all the same
DeleteCatchGoesOn(q) == [q EXCEPT !.pc = "d_doc"]

\* catch (err) of the DELETE handlers: the request fails, the document stays
DeleteCatch(q) == Respond(q, 500)

\* the handler is entered: await Image.findById(req.params.id); part_002's
\* first handler and part_003 then issue both destroys at once
StartDelete(r) ==
  /\ MayStart(r)
  /\ \E i \in TargetIds, ok \in BOOLEAN :
       LET q == Logged([IdleReq EXCEPT !.kind = "delete", !.serial = started + 1,
                                       !.id = i],
                       "findById", "", NoId, ok)
       IN  rq' = [rq EXCEPT ![r] =
                   IF ~ok THEN Respond(q, 500)
                   ELSE IF NotFound(FindById(i)) THEN Respond(q, 404)
                   ELSE IF variant = "optional"
                        THEN [q EXCEPT !.entry = FindById(i), !.pc = "d_after"]
                   ELSE [q EXCEPT !.entry = FindById(i), !.pc = "d_all",
                                  !.pending = Sides]]
  /\ started' = started + 1
  /\ UNCHANGED <<variant, omitUndefined, db, cloud, clock, liked, failedDeletes, writes>>

\* Promise.all([destroy(before), destroy(after)]): one of the destroys
\* settles; the first rejection makes the handler answer 500 while the other
\* destroy stays in flight
DeleteSettle(r) ==
  /\ rq[r].kind = "delete"
  /\ rq[r].pending # {}
  /\ \E s \in rq[r].pending, ok \in BOOLEAN :
       LET old == rq[r].entry[s]
           q == Logged([rq[r] EXCEPT !.pending = @ \ {s}], "destroy", s, old, ok)
       IN  /\ cloud' = IF ok THEN Destroyed(cloud, old) ELSE cloud
           /\ rq' = [rq EXCEPT ![r] =
                      IF q.pc # "d_all" THEN q
                      ELSE IF ~ok THEN DeleteCatch(q)
                      ELSE IF q.pending = {} THEN [q EXCEPT !.pc = "d_doc"]
                      ELSE q]
           /\ failedDeletes' = IF q.pc = "d_all" /\ ~ok
                               THEN failedDeletes \cup {q.id} ELSE failedDeletes
  /\ UNCHANGED <<variant, omitUndefined, db, clock, started, liked, writes>>

\* await cloudinary.uploader.destroy(imageEntry.afterImage.public_id)
DeleteDestroyAfter(r) ==
  /\ rq[r].pc = "d_after"
  /\ \E ok \in BOOLEAN :
       LET old == rq[r].entry.afterImage
           q == Logged(rq[r], "destroy", "afterImage", old, ok)
       IN  /\ cloud' = IF ok THEN Destroyed(cloud, old) ELSE cloud
           /\ rq' = [rq EXCEPT ![r] =
                      IF ~ok THEN DeleteCatch(q)
                      ELSE IF DeleteDestroysBefore(variant, q.entry)
                           THEN [q EXCEPT !.pc = "d_before"]
                      ELSE [q EXCEPT !.pc = "d_doc"]]
           /\ failedDeletes' = IF ok THEN failedDeletes
                               ELSE failedDeletes \cup {q.id}
  /\ UNCHANGED <<variant, omitUndefined, db, clock, started, liked, writes>>

\* await cloudinary.uploader.destroy(imageEntry.beforeImage.public_id)
DeleteDestroyBefore(r) ==
  /\ rq[r].pc = "d_before"
  /\ \E ok \in BOOLEAN :
       LET old == rq[r].entry.beforeImage
           q == Logged(rq[r], "destroy", "beforeImage", old, ok)
       IN  /\ cloud' = IF ok THEN Destroyed(cloud, old) ELSE cloud
           /\ rq' = [rq EXCEPT ![r] =
                      IF ok THEN [q EXCEPT !.pc = "d_doc"] ELSE DeleteCatch(q)]
           /\ failedDeletes' = IF ok THEN failedDeletes
                               ELSE failedDeletes \cup {q.id}
  /\ UNCHANGED <<variant, omitUndefined, db, clock, started, liked, writes>>

\* await imageEntry.deleteOne() / Image.deleteOne({ _id }): removing a
\* document that is already gone resolves as well
DeleteDoc(r) ==
  /\ rq[r].pc = "d_doc"
  /\ \E ok \in BOOLEAN :
       LET q == Logged(rq[r], "deleteOne", "", NoId, ok)
       IN  /\ db' = IF ok THEN [i \in DOMAIN db \ {rq[r].id} |-> db[i]] ELSE db
           /\ rq' = [rq EXCEPT ![r] = Respond(q, IF ok THEN 200 ELSE 500)]
  /\ UNCHANGED <<variant, omitUndefined, cloud, clock, started, liked, failedDeletes, writes>>

\* ---- PATCH /api/images/:id/like -----------------------------------------

\* the paths of ImageSchema; an update operator on any other path is
\* dropped when the update is cast (schemas are strict)
SchemaPaths == {"title", "description", "beforeImage", "afterImage", "createdAt"}

\* the document after { $inc: { likes: 1 } }
IncLikes(d) == IF "likes" \in SchemaPaths THEN [d EXCEPT !.likes = @ + 1] ELSE d

\* await Image.findByIdAndUpdate(id, { $inc: { likes: 1 } }, { new: true }):
\* one atomic operation of the document store.  Only the optional-before
\* routes have it.
Like(r) ==
  /\ variant = "optional"
  /\ MayStart(r)
  /\ \E i \in TargetIds, ok \in BOOLEAN :
       LET q == Logged([IdleReq EXCEPT !.kind = "like", !.serial = started + 1,
                                       !.id = i],
                       "write", "", NoId, ok)
       IN  /\ db' = IF ok /\ i \in DOMAIN db
                    THEN [db EXCEPT ![i] = IncLikes(@)] ELSE db
           /\ rq' = [rq EXCEPT ![r] =
                      IF ~ok THEN Respond(q, 500)
                      ELSE IF NotFound(FindById(i)) THEN Respond(q, 404)
                      ELSE Respond([q EXCEPT !.entry = IncLikes(FindById(i))], 200)]
           /\ liked' = IF ok /\ i \in DOMAIN db
                       THEN [liked EXCEPT ![i] = @ + 1] ELSE liked
  /\ started' = started + 1
  /\ UNCHANGED <<variant, omitUndefined, cloud, clock, failedDeletes, writes>>

\* ---- GET /api/images ----------------------------------------------------

\* req.query.q: absent, empty, or a search text
Queries == {Undef, "", "kit", "E", "."}

\* the characters of the texts that occur in documents and queries
Chars(str) ==
  CASE str = "Kitchen" -> <<"K", "i", "t", "c", "h", "e", "n">>
    [] str = "Remodel" -> <<"R", "e", "m", "o", "d", "e", "l">>
    [] str = "Bath" -> <<"B", "a", "t", "h">>
    [] str = "Refit" -> <<"R", "e", "f", "i", "t">>
    [] str = "kit" -> <<"k", "i", "t">>
    [] str = "E" -> <<"E">>
    [] str = "." -> <<".">>
    [] OTHER -> << >>

\* $options: 'i' compares letters without their case
Lower(c) ==
  CASE c = "K" -> "k" [] c = "R" -> "r" [] c = "B" -> "b" [] c = "E" -> "e"
    [] OTHER -> c

\* one character of the pattern against one character of the text; the
\* pattern is a regular expression, in which `.` stands for any character
MatchesChar(p, c) == p = "." \/ Lower(p) = Lower(c)

\* { $regex: q, $options: 'i' } on a field: the pattern matches somewhere in
\* the text; a field that holds no string does not match
RegexMatch(text, q) ==
  /\ text \notin {Undef, Null}
  /\ \E off \in 0..(Len(Chars(text)) - Len(Chars(q))) :
       \A k \in 1..Len(Chars(q)) : MatchesChar(Chars(q)[k], Chars(text)[off + k])

\* Image.find({ f: { $regex: q, $options: 'i' } }) over the fields given ($or)
FindRegex(fields, q) ==
  {i \in DOMAIN db : \E f \in fields : RegexMatch(db[i][f], q)}

\* .sort({ createdAt: -1 }): the orders of the documents found in which
\* createdAt never rises; documents of the same createdAt come in any order
SortedByCreatedAt(ids) ==
  {s \in [1..Cardinality(ids) -> ids] :
     /\ \A a, b \in DOMAIN s : a # b => s[a] # s[b]
     /\ \A a, b \in DOMAIN s : a < b => db[s[a]].createdAt >= db[s[b]].createdAt}

\* the first find of the handler.  part_002's first handler searches title
\* and description at once, its second handler has no search, part_003
\* searches the titles and, when no title matches, goes on to the
\* descriptions.
ListEntries(r) ==
  /\ MayStart(r)
  /\ \E text \in Queries, ok \in BOOLEAN :
       LET q == Logged([IdleReq EXCEPT !.kind = "list", !.serial = started + 1,
                                       !.query = text],
                       "find", "", NoId, ok)
           found == IF Falsy(text) \/ variant = "optional" THEN DOMAIN db
                    ELSE IF variant = "preview"
                         THEN FindRegex({"title", "description"}, text)
                    ELSE FindRegex({"title"}, text)
       IN  IF ~ok THEN rq' = [rq EXCEPT ![r] = Respond(q, 500)]
           ELSE IF variant = "strict" /\ ~Falsy(text) /\ found = {}
           THEN rq' = [rq EXCEPT ![r] = [q EXCEPT !.pc = "l_description"]]
           ELSE \E images \in SortedByCreatedAt(found) :
                  rq' = [rq EXCEPT ![r] = Respond([q EXCEPT !.result = images], 200)]
  /\ started' = started + 1
  /\ UNCHANGED <<variant, omitUndefined, db, cloud, clock, liked, failedDeletes, writes>>

\* images = await Image.find({ description: searchQuery }).sort(...)
ListDescription(r) ==
  /\ rq[r].pc = "l_description"
  /\ \E ok \in BOOLEAN :
       LET q == Logged(rq[r], "find", "", NoId, ok)
       IN  IF ~ok THEN rq' = [rq EXCEPT ![r] = Respond(q, 500)]
           ELSE \E images \in SortedByCreatedAt(FindRegex({"description"}, q.query)) :
                  rq' = [rq EXCEPT ![r] = Respond([q EXCEPT !.result = images], 200)]
  /\ UNCHANGED <<variant, omitUndefined, db, cloud, clock, started,
                 liked, failedDeletes, writes>>

\* ---- the response -------------------------------------------------------

\* res.json(...) / res.status(...).json(...): the response leaves and the
\* handler is over; calls of a rejected Promise.all stay in flight.  The
\* response is sent in the same turn of the event loop that produced it, so
\* no other handler runs in between.
Reply(r) ==
  /\ rq[r].pc = "done"
  /\ rq' = [rq EXCEPT ![r] = [IdleReq EXCEPT !.kind = rq[r].kind,
                                             !.serial = rq[r].serial,
                                             !.entry = IF rq[r].pending = {} THEN NoDoc
                                                       ELSE rq[r].entry,
                                             !.pending = rq[r].pending]]
  /\ UNCHANGED <<variant, omitUndefined, db, cloud, clock, started,
               liked, failedDeletes, writes>>

Quiet == \A r \in Reqs : rq[r].pc # "done"

Next ==
  \/ \E r \in Reqs : Reply(r)
  \/ Quiet /\ \E r \in Reqs : StartCreate(r)
  \/ Quiet /\ \E r \in Reqs : CreateSettle(r)
  \/ Quiet /\ \E r \in Reqs : CreateUploadAfter(r)
  \/ Quiet /\ \E r \in Reqs : CreateUploadBefore(r)
  \/ Quiet /\ \E r \in Reqs : CreateSave(r)
  \/ Quiet /\ \E r \in Reqs : StartUpdate(r)
  \/ Quiet /\ \E r \in Reqs : UpdateDestroy(r)
  \/ Quiet /\ \E r \in Reqs : UpdateUpload(r)
  \/ Quiet /\ \E r \in Reqs : UpdatePersist(r)
  \/ Quiet /\ \E r \in Reqs : StartDelete(r)
  \/ Quiet /\ \E r \in Reqs : DeleteSettle(r)
  \/ Quiet /\ \E r \in Reqs : DeleteDestroyAfter(r)
  \/ Quiet /\ \E r \in Reqs : DeleteDestroyBefore(r)
  \/ Quiet /\ \E r \in Reqs : DeleteDoc(r)
  \/ Quiet /\ \E r \in Reqs : Like(r)
  \/ Quiet /\ \E r \in Reqs : ListEntries(r)
  \/ Quiet /\ \E r \in Reqs : ListDescription(r)

Spec == Init /\ [][Next]_vars

\* ---- the collections GET is read against --------------------------------

MaxDocs == 2

\* texts that POST and PUT requests leave in documents
ListTitles == {"Kitchen", "Bath"}
ListDescriptions == {"Remodel", "Refit"}

\* the document _id i that earlier requests left with these texts
ListDoc(v, i, t, d, c) ==
  [SeedDoc(v, FALSE) EXCEPT !.title = t, !.description = d, !.createdAt = c,
                            !.beforeImage = NewPublicId(v, i, "beforeImage"),
                            !.afterImage = NewPublicId(v, i, "afterImage")]

Collections(v) ==
  UNION {{[i \in 0..(n - 1) |-> ListDoc(v, i, f[i][1], f[i][2], f[i][3])] :
            f \in [0..(n - 1) -> ListTitles \X ListDescriptions \X (0..MaxClock)]} :
         n \in 0..MaxDocs}

InitList ==
  /\ variant \in Variants
  /\ omitUndefined = TRUE
  /\ db \in Collections(variant)
  /\ cloud = UNION {RealIds(db[i]) : i \in DOMAIN db}
  /\ clock = MaxClock
  /\ started = 0
  /\ rq = [r \in Reqs |-> IdleReq]
  /\ liked = [i \in 0..MaxReqs |-> 0]
  /\ failedDeletes = {}
  /\ writes = << >>

NextList ==
  \/ \E r \in Reqs : Reply(r)
  \/ Quiet /\ \E r \in Reqs : ListEntries(r)
  \/ Quiet /\ \E r \in Reqs : ListDescription(r)

SpecList == InitList /\ [][NextList]_vars

\* ---- requests one at a time, no call failing ----------------------------

\* the step leaves at most one request under way and no settled call of it
\* has failed
SerialStep ==
  /\ \A r \in Reqs : \A i \in 1..Len(rq'[r].log) : rq'[r].log[i].ok
  /\ Cardinality({r \in Reqs : rq'[r].pc # "idle" \/ rq'[r].pending # {}}) <= 1

NextSerial ==
  \/ \E r \in Reqs : Reply(r)
  \/ Quiet /\ (\E r \in Reqs : StartCreate(r)) /\ SerialStep
  \/ Quiet /\ (\E r \in Reqs : CreateSettle(r)) /\ SerialStep
  \/ Quiet /\ (\E r \in Reqs : CreateUploadAfter(r)) /\ SerialStep
  \/ Quiet /\ (\E r \in Reqs : CreateUploadBefore(r)) /\ SerialStep
  \/ Quiet /\ (\E r \in Reqs : CreateSave(r)) /\ SerialStep
  \/ Quiet /\ (\E r \in Reqs : StartUpdate(r)) /\ SerialStep
  \/ Quiet /\ (\E r \in Reqs : UpdateDestroy(r)) /\ SerialStep
  \/ Quiet /\ (\E r \in Reqs : UpdateUpload(r)) /\ SerialStep
  \/ Quiet /\ (\E r \in Reqs : UpdatePersist(r)) /\ SerialStep
  \/ Quiet /\ (\E r \in Reqs : StartDelete(r)) /\ SerialStep
  \/ Quiet /\ (\E r \in Reqs : DeleteSettle(r)) /\ SerialStep
  \/ Quiet /\ (\E r \in Reqs : DeleteDestroyAfter(r)) /\ SerialStep
  \/ Quiet /\ (\E r \in Reqs : DeleteDestroyBefore(r)) /\ SerialStep
  \/ Quiet /\ (\E r \in Reqs : DeleteDoc(r)) /\ SerialStep

SpecSerial == Init /\ [][NextSerial]_vars

\* ---- properties ---------------------------------------------------------

Idx(q) == 1..Len(q.log)
UploadCalls(q) == {i \in Idx(q) : q.log[i].op = "upload"}
DestroyCalls(q) == {i \in Idx(q) : q.log[i].op = "destroy"}
FailedUpload(q) == \E i \in UploadCalls(q) : ~q.log[i].ok
FailedDestroy(q) == \E i \in DestroyCalls(q) : ~q.log[i].ok

\* policy A: the before image is required; policy B: it is optional
PolicyB == variant = "optional"

\* C1: in an update, every destroy of a side's old object comes after a
\* successful upload of that side's new buffer, and the identifier destroyed
\* is the one the record held for that side when the handler read it.
C1_UploadBeforeDelete ==
  \A r \in Reqs :
    rq[r].kind = "update" =>
      \A i \in DestroyCalls(rq[r]) :
        /\ \E j \in UploadCalls(rq[r]) :
             j < i /\ rq[r].log[j].side = rq[r].log[i].side /\ rq[r].log[j].ok
        /\ rq[r].log[i].id = rq[r].entry[rq[r].log[i].side]

\* C2: when an update whose upload failed has ended, every real identifier
\* the stored record holds is still an object of the Object Store.
C2_FailedUploadLeavesNoDanglingRef ==
  \A r \in Reqs :
    (rq[r].kind = "update" /\ rq[r].pc = "done" /\ FailedUpload(rq[r])
       /\ rq[r].id \in DOMAIN db)
      => RealIds(db[rq[r].id]) \subseteq cloud

\* C3: a create in which an upload failed writes no record (no document
\* carries its _id, and it never reaches the save) and answers with an error.
C3_FailedUploadWritesNoRecord ==
  \A r \in Reqs :
    (rq[r].kind = "create" /\ FailedUpload(rq[r])) =>
      /\ rq[r].serial \notin DOMAIN db
      /\ rq[r].doc = 0
      /\ rq[r].pc # "c_save"
      /\ rq[r].pc = "done" => rq[r].status = 500

C3_Witness ==
  \E r \in Reqs :
    /\ rq[r].kind = "create" /\ rq[r].pc = "done" /\ rq[r].status = 500
    /\ FailedUpload(rq[r])
    /\ \E i \in UploadCalls(rq[r]) : rq[r].log[i].ok

\* the create inputs the specification rejects: no title, no description,
\* no after image, or (policy A) no before image
InvalidCreate(q) ==
  \/ Falsy(q.title)
  \/ Falsy(q.description)
  \/ ~HasFile(q, "afterImage")
  \/ ~PolicyB /\ ~HasFile(q, "beforeImage")

\* C4: a create with invalid input is answered 400 at once, makes no upload
\* call and writes no record.
C4_InvalidCreateMakesNoCall ==
  \A r \in Reqs :
    (rq[r].kind = "create" /\ rq[r].pc # "idle" /\ InvalidCreate(rq[r])) =>
      /\ rq[r].pc = "done" /\ rq[r].status = 400
      /\ UploadCalls(rq[r]) = {}
      /\ rq[r].doc = 0

\* C5: no destroy call is ever made with a placeholder identifier.
C5_PlaceholderNeverDestroyed ==
  \A r \in Reqs :
    \A i \in DestroyCalls(rq[r]) : ~IsPlaceholder(rq[r].log[i].id)

\* an update that replaced a placeholder before image, or a delete of a
\* record whose before image is a placeholder, has succeeded
C5_Witness ==
  \E r \in Reqs :
    /\ rq[r].pc = "done" /\ rq[r].status = 200
    /\ IsPlaceholder(rq[r].entry.beforeImage)
    /\ \/ rq[r].kind = "update" /\ HasFile(rq[r], "beforeImage")
       \/ rq[r].kind = "delete"

\* C6: under policy B a create without a before image whose after upload
\* succeeded has made exactly one upload call, for the after image; the
\* document it builds, and the record it has persisted when it answers 201,
\* hold a placeholder before identifier and the uploaded after identifier.
C6_PlaceholderCreate ==
  \A r \in Reqs :
    (PolicyB /\ rq[r].kind = "create" /\ ~HasFile(rq[r], "beforeImage")
       /\ \E i \in UploadCalls(rq[r]) : rq[r].log[i].ok) =>
      /\ Cardinality(UploadCalls(rq[r])) = 1
      /\ \A i \in UploadCalls(rq[r]) :
           /\ rq[r].log[i].side = "afterImage"
           /\ rq[r].upd.afterImage = rq[r].log[i].id
      /\ IsPlaceholder(rq[r].upd.beforeImage)
      /\ ~IsPlaceholder(rq[r].upd.afterImage)
      /\ rq[r].status = 201 =>
           /\ rq[r].serial \in DOMAIN db
           /\ db[rq[r].serial] = rq[r].upd

C6_Witness ==
  \E r \in Reqs :
    /\ PolicyB /\ rq[r].kind = "create" /\ ~HasFile(rq[r], "beforeImage")
    /\ rq[r].status = 201
    /\ IsPlaceholder(db[rq[r].serial].beforeImage)

\* C7: when a create with both images answers 201, the record it returns is
\* in the collection under its _id, its two identifiers differ, neither is a
\* placeholder, and both are objects of the Object Store.
C7_CreateBothReal ==
  \A r \in Reqs :
    (rq[r].kind = "create" /\ rq[r].status = 201
       /\ HasFile(rq[r], "beforeImage") /\ HasFile(rq[r], "afterImage")) =>
      /\ rq[r].doc \in DOMAIN db
      /\ db[rq[r].doc] = rq[r].upd
      /\ ~Falsy(rq[r].upd.title) /\ ~Falsy(rq[r].upd.description)
      /\ rq[r].upd.beforeImage # rq[r].upd.afterImage
      /\ ~IsPlaceholder(rq[r].upd.beforeImage)
      /\ ~IsPlaceholder(rq[r].upd.afterImage)
      /\ {rq[r].upd.beforeImage, rq[r].upd.afterImage} \subseteq cloud

C7_Witness ==
  \E r \in Reqs :
    /\ rq[r].kind = "create" /\ rq[r].status = 201
    /\ HasFile(rq[r], "beforeImage") /\ HasFile(rq[r], "afterImage")

\* C8: when a delete answers 200 (every destroy and the removal succeeded),
\* a successful destroy call was made for every non-placeholder side of the
\* record it read, none of those objects is left in the Object Store, the
\* document is gone and findById of its _id finds nothing.
C8_DeleteRemovesAll ==
  \A r \in Reqs :
    (rq[r].kind = "delete" /\ rq[r].pc = "done" /\ rq[r].status = 200) =>
      /\ \A s \in Sides :
           ~IsPlaceholder(rq[r].entry[s]) =>
             /\ \E i \in DestroyCalls(rq[r]) :
                  /\ rq[r].log[i].id = rq[r].entry[s]
                  /\ rq[r].log[i].ok
             /\ rq[r].entry[s] \notin cloud
      /\ rq[r].id \notin DOMAIN db
      /\ NotFound(FindById(rq[r].id))

C8_Witness ==
  \E r \in Reqs :
    /\ rq[r].kind = "delete" /\ rq[r].pc = "done" /\ rq[r].status = 200
    /\ \A s \in Sides : ~IsPlaceholder(rq[r].entry[s])

\* C9: every step of a delete in which a destroy has failed leaves the
\* collection as it is, the delete never goes on to remove the document, and
\* it answers with an error.
C9_FailedDestroyKeepsRecord ==
  [][\A r \in Reqs :
       (rq'[r] # rq[r] /\ rq'[r].kind = "delete" /\ FailedDestroy(rq'[r])) =>
         /\ db' = db
         /\ rq'[r].pc # "d_doc"
         /\ rq'[r].pc = "done" => rq'[r].status = 500]_vars

C9_Witness ==
  \E r \in Reqs :
    /\ rq[r].kind = "delete" /\ rq[r].pc = "done" /\ rq[r].status = 500
    /\ FailedDestroy(rq[r])
    /\ rq[r].id \in DOMAIN db /\ db[rq[r].id] = rq[r].entry

\* C10: an update, delete or like whose lookup finds no document answers
\* 404 in that same step, makes no Object Store call and changes neither the
\* collection nor the Object Store.
C10_MissingIdIsNotFound ==
  [][\A r \in Reqs :
       (/\ rq[r].pc = "idle" /\ rq'[r].pc # "idle"
        /\ rq'[r].kind \in {"update", "delete", "like"}
        /\ rq'[r].log[1].ok
        /\ rq'[r].id \notin DOMAIN db) =>
         /\ rq'[r].pc = "done" /\ rq'[r].status = 404
         /\ UploadCalls(rq'[r]) = {} /\ DestroyCalls(rq'[r]) = {}
         /\ Len(rq'[r].log) = 1
         /\ rq'[r].pending = {}
         /\ db' = db /\ cloud' = cloud]_vars

C10_Witness ==
  \E r \in Reqs :
    /\ rq[r].kind \in {"update", "delete", "like"}
    /\ rq[r].pc = "done" /\ rq[r].status = 404
    /\ rq[r].id \notin DOMAIN db

\* C11: once the like requests on a document have been answered, however
\* they interleaved, the document's likes have grown by exactly the number of
\* them answered 200 (N concurrent likes: +N).
C11_LikesCountEveryLike ==
  \A i \in DOMAIN db : db[i].likes = liked[i]

\* C12: the write of an update that carries only a new after image (no
\* title, no description, no before image) and answers 200 leaves the
\* document's title, description and before reference as they were and sets
\* the after reference to the object the request uploaded.
OnlyAfterImage(q) ==
  /\ q.kind = "update"
  /\ q.title = Undef /\ q.description = Undef
  /\ HasFile(q, "afterImage") /\ ~HasFile(q, "beforeImage")

C12_OnlyAfterChanges ==
  [][\A r \in Reqs :
       (/\ rq[r].pc = "u_persist" /\ OnlyAfterImage(rq[r])
        /\ rq'[r].pc = "done" /\ rq'[r].status = 200
        /\ rq[r].id \in DOMAIN db) =>
         LET old == db[rq[r].id]
             new == db'[rq[r].id]
         IN  /\ new.title = old.title
             /\ new.description = old.description
             /\ new.beforeImage = old.beforeImage
             /\ new.afterImage = NewPublicId(variant, rq[r].serial, "afterImage")
             /\ new.afterImage # old.afterImage]_vars

\* the uploads of a create that were issued and have not settled
InFlight(q) ==
  CASE q.pc = "c_after" -> {"afterImage"}
    [] q.pc = "c_before" -> {"beforeImage"}
    [] OTHER -> q.pending

\* C13: a create with both files has both uploads in flight as long as none
\* of them has settled (both are issued before either is awaited), and
\* reaches the save only with a successful upload of each side behind it.
C13_BothUploadsIssuedTogether ==
  \A r \in Reqs :
    (/\ rq[r].kind = "create"
     /\ HasFile(rq[r], "beforeImage") /\ HasFile(rq[r], "afterImage")) =>
      /\ (rq[r].pc \notin {"idle", "done"} /\ UploadCalls(rq[r]) = {}) =>
           InFlight(rq[r]) = Sides
      /\ (rq[r].pc = "c_save" \/ rq[r].doc # 0) =>
           \A s \in Sides :
             \E i \in UploadCalls(rq[r]) :
               rq[r].log[i].side = s /\ rq[r].log[i].ok

\* C14: a delete of a record whose earlier delete failed on a rejected
\* destroy, that finds the record and in which no call fails, answers 200,
\* removes the document and leaves none of the record's uploaded objects in
\* the Object Store, also when some of them were gone already.
RetriedDelete(q) ==
  /\ q.kind = "delete" /\ q.pc = "done"
  /\ q.id \in failedDeletes
  /\ q.entry # NoDoc
  /\ \A i \in Idx(q) : q.log[i].ok

C14_RetriedDeleteRemovesAll ==
  \A r \in Reqs :
    RetriedDelete(rq[r]) =>
      /\ rq[r].status = 200
      /\ rq[r].id \notin DOMAIN db
      /\ RealIds(rq[r].entry) \cap cloud = {}

C14_Witness ==
  \E r \in Reqs :
    /\ RetriedDelete(rq[r])
    /\ rq[r].status = 200
    /\ \E i \in DestroyCalls(rq[r]) : TRUE

\* C15: an update in which an upload or a destroy failed writes nothing: the
\* step that ends it leaves the collection as it was and no write is among
\* its calls, whatever text it carried and whichever side it had already
\* replaced; and no step of an update before its write changes the
\* collection.
C15_FailedUpdatePersistsNothing ==
  [][\A r \in Reqs :
       /\ (/\ rq[r].kind = "update" /\ rq[r].pc # "done" /\ rq'[r].pc = "done"
           /\ (FailedUpload(rq'[r]) \/ FailedDestroy(rq'[r]))) =>
            /\ db' = db
            /\ rq'[r].status = 500
            /\ \A i \in Idx(rq'[r]) : rq'[r].log[i].op # "write"
       /\ (rq[r].pc \in {"u_destroy", "u_upload"} /\ rq'[r] # rq[r]) =>
            db' = db]_vars

C15_Witness ==
  \E r \in Reqs :
    /\ rq[r].kind = "update" /\ rq[r].pc = "done" /\ rq[r].status = 500
    /\ FailedUpload(rq[r])
    /\ rq[r].side = "afterImage"
    /\ \E i \in UploadCalls(rq[r]) :
         rq[r].log[i].side = "beforeImage" /\ rq[r].log[i].ok
    /\ rq[r].title # Undef
    /\ rq[r].id \in DOMAIN db /\ db[rq[r].id] = rq[r].entry

\* C16: no two documents of the collection hold the same public_id, on any
\* sides; in particular two creates without a before image never get the
\* same placeholder identifier, also when Date.now() gives both the same
\* value.
C16_NoSharedIdentifier ==
  \A i, j \in DOMAIN db :
    i # j => \A s, t \in Sides : db[i][s] # db[j][t]

\* the like request answered 200 for document i in this step
LikedNow(i) ==
  \E r \in Reqs :
    /\ rq[r].pc = "idle" /\ rq'[r].pc = "done"
    /\ rq'[r].kind = "like" /\ rq'[r].status = 200 /\ rq'[r].id = i

\* C17: likes is a natural number in every document, 0 in a document just
\* created, one higher after each like answered 200, and changed by no other
\* step (an update in particular).
C17_LikesChangedOnlyByLike ==
  [][/\ \A i \in DOMAIN db' : db'[i].likes \in Nat
     /\ \A i \in DOMAIN db' \ DOMAIN db : db'[i].likes = 0
     /\ \A i \in DOMAIN db' \cap DOMAIN db :
          db'[i].likes = db[i].likes + (IF LikedNow(i) THEN 1 ELSE 0)]_vars

\* the requests received are two updates whose writes both changed the same
\* document, and both replaced the image `s`
TwoUpdatesReplaced(s) ==
  /\ started = 2 /\ Len(writes) = 2
  /\ writes[1].id = writes[2].id
  /\ s \in writes[1].set /\ s \in writes[2].set

\* C18: when two updates replaced the same image of the same document and
\* both were written, the document's reference for that image is the object
\* uploaded by the update written last, and the Object Store holds it,
\* however the two requests interleaved.
C18_LastWriteWins ==
  \A s \in Sides :
    TwoUpdatesReplaced(s) =>
      LET i == writes[2].id
          pid == NewPublicId(variant, writes[2].serial, s)
      IN  /\ i \in DOMAIN db
          /\ db[i][s] = pid
          /\ pid \in cloud

\* the update written last had read the document before the other's write
C18_Witness ==
  \E s \in Sides, r \in Reqs :
    /\ TwoUpdatesReplaced(s)
    /\ rq[r].pc = "done" /\ rq[r].status = 200
    /\ rq[r].serial = writes[2].serial
    /\ rq[r].entry[s] # NewPublicId(variant, writes[1].serial, s)
    /\ db[writes[2].id][s] = NewPublicId(variant, writes[2].serial, s)

\* the request was answered with a success status
Succeeded(q) == q.pc = "done" /\ q.status \in {200, 201}

\* what the request was to write is in the collection when it is answered
PersistTookEffect(q) ==
  CASE q.kind = "create" -> q.serial \in DOMAIN db /\ db[q.serial] = q.upd
    [] q.kind = "update" ->
         /\ q.id \in DOMAIN db
         /\ \A f \in q.set : db[q.id][f] = q.upd[f]
    [] q.kind = "delete" -> q.id \notin DOMAIN db
    [] q.kind = "like" -> q.id \in DOMAIN db /\ db[q.id].likes >= 1
    [] OTHER -> TRUE

\* C19: a request is answered with a success status only if every Object
\* Store and document-store call it made succeeded and what it was to write
\* is in the collection; a request with a failed call is answered with an
\* error.
C19_SuccessMeansAllDone ==
  \A r \in Reqs :
    Succeeded(rq[r]) =>
      /\ \A i \in Idx(rq[r]) : rq[r].log[i].ok
      /\ PersistTookEffect(rq[r])

\* the text occurs in the field, letters compared without their case
ContainsText(text, q) ==
  /\ text \notin {Undef, Null}
  /\ \E off \in 0..(Len(Chars(text)) - Len(Chars(q))) :
       \A k \in 1..Len(Chars(q)) :
         Lower(Chars(q)[k]) = Lower(Chars(text)[off + k])

\* the documents a search for the text is to return
Wanted(q) ==
  IF Falsy(q) THEN DOMAIN db
  ELSE {i \in DOMAIN db : \/ ContainsText(db[i].title, q)
                          \/ ContainsText(db[i].description, q)}

\* C20: the list a GET answers with holds each document at most once, in an
\* order in which createdAt never rises; without search text it holds every
\* document of the collection, with search text exactly the documents whose
\* title or description contains the text, letters compared without case.
C20_ListIsSortedAndExact ==
  \A r \in Reqs :
    (rq[r].kind = "list" /\ rq[r].pc = "done" /\ rq[r].status = 200) =>
      LET res == rq[r].result
      IN  /\ \A a, b \in DOMAIN res : a # b => res[a] # res[b]
          /\ \A a, b \in DOMAIN res :
               a < b => db[res[a]].createdAt >= db[res[b]].createdAt
          /\ {res[a] : a \in DOMAIN res} = Wanted(rq[r].query)

\* C21: no step of an update adds a document to the collection or removes
\* one (so an update never brings back a document that a delete removed),
\* and an update is answered 200 only while the document it names is in the
\* collection.
C21_UpdateOfDeletedRecord ==
  [][\A r \in Reqs :
       (/\ rq[r].kind = "update" /\ rq[r].pc \notin {"idle", "done"}
        /\ rq'[r] # rq[r]) =>
         /\ DOMAIN db' = DOMAIN db
         /\ (rq'[r].pc = "done" /\ rq'[r].status = 200) =>
              rq[r].id \in DOMAIN db']_vars

\* the uploaded objects that the documents of the collection refer to
Referenced == UNION {RealIds(db[i]) : i \in DOMAIN db}

\* C22: when requests ran one at a time and no call failed, then between
\* requests the Object Store holds exactly the uploaded objects that the
\* documents of the collection refer to: no orphan and no missing object.
C22_NoOrphanAtRest ==
  (\A r \in Reqs : rq[r].pc = "idle") => cloud = Referenced
====
